---- MODULE Spec2Model ----
(***************************************************************************)
(* Model of fdict (src/fdict/fdict.py): a nested dictionary kept in one    *)
(* flat key space.  Paths are strings; a string is modelled as a sequence  *)
(* of one-character strings, so that rfind / endswith / startswith / join  *)
(* are computed on characters exactly as the Python code computes them.    *)
(* The internal dict self.d is a function from paths to entries.           *)
(***************************************************************************)
EXTENDS Integers, Sequences, FiniteSets, TLC

VARIABLES
    delimiter,  \* self.delimiter, fixed at construction
    d,          \* self.d of the fastview=True structure (shared by its views)
    c,          \* self.d of a fastview=False structure driven in lockstep
    view,       \* rootpath of the live sub-fdict returned by __getitem__ ("" = none)
    conflict,   \* history: some insert met a leaf/node conflict
    filename,   \* self.filename of an sfdict, NoFile for an in-memory fdict
    other,      \* a second structure derived from the first (a view or a copy),
                \* with what its dict has in common with the first one's
    nops,       \* number of operations issued so far
    last        \* record of the last operation: arguments, store before, outcome

vars == <<delimiter, d, c, view, conflict, filename, other, nops, last>>

(***************************************************************************)
(* Bounds of the model.                                                    *)
(***************************************************************************)
MaxOps == 3

\* longest sequence of inserts and deletes given to the two structures in lockstep
MaxPairOps == 4

\* longest sequence of operations on a structure and the one derived from it
MaxAliasOps == 3

\* the depth of the nested mappings handed to the constructor
MaxDepth == 2

\* the two delimiters tried: the default '/' and a configured one
Delims == {"/", "."}

\* the paths used as keys, as lists of one-character segments
SegPaths == { <<"a">>, <<"b">>, <<"a", "a">>, <<"a", "b">>,
              <<"a", "a", "a">>, <<"a", "a", "b">> }

\* leaf values (opaque payloads)
Values == {1, 2}

(***************************************************************************)
(* Strings.                                                                *)
(***************************************************************************)
Empty == << >>

Max(S) == CHOOSE x \in S : \A y \in S : y <= x

\* str.rfind(ch, lo, hi) for a one-character ch: 0-based index or -1
RFind(s, ch, lo, hi) ==
    LET I == { i \in lo .. (hi - 1) : i < Len(s) /\ s[i + 1] = ch }
    IN  IF I = {} THEN -1 ELSE Max(I)

\* str.find(ch, lo) for a one-character ch: 0-based index or -1
Find(s, ch, lo) ==
    LET I == { i \in lo .. (Len(s) - 1) : s[i + 1] = ch }
    IN  IF I = {} THEN -1 ELSE CHOOSE i \in I : \A j \in I : i <= j

\* s[:n]
Prefix(s, n) == SubSeq(s, 1, n)

\* s[n:]
Suffix(s, n) == SubSeq(s, n + 1, Len(s))

endswith(s, ch) == Len(s) > 0 /\ s[Len(s)] = ch

startswith(s, p) == Len(p) <= Len(s) /\ Prefix(s, Len(p)) = p

\* delimiter.join(parts) for a sequence of strings
RECURSIVE join(_, _)
join(parts, delim) ==
    IF Len(parts) = 0 THEN Empty
    ELSE IF Len(parts) = 1 THEN parts[1]
    ELSE parts[1] \o <<delim>> \o join(Tail(parts), delim)

\* filter(None, parts): drop the empty strings
RECURSIVE filterNone(_)
filterNone(parts) ==
    IF Len(parts) = 0 THEN << >>
    ELSE IF parts[1] = Empty THEN filterNone(Tail(parts))
    ELSE <<parts[1]>> \o filterNone(Tail(parts))

\* the key string of a segment list under a delimiter
Path(segs, delim) == join([i \in 1 .. Len(segs) |-> <<segs[i]>>], delim)

Keys(delim) == { Path(p, delim) : p \in SegPaths }

(***************************************************************************)
(* PathCodec: the static path helpers of fdict.                            *)
(***************************************************************************)
RECURSIVE ParentsFrom(_, _, _)
ParentsFrom(path, delim, pos) ==
    IF pos = -1 THEN << >>
    ELSE <<Prefix(path, pos + 1)>> \o ParentsFrom(path, delim, RFind(path, delim, 0, pos))

\* all parent nodes of a path, direct parent first
_get_all_parent_nodes(path, delim) ==
    ParentsFrom(path, delim, RFind(path, delim, 0, Len(path)))

\* the first parent of a leaf 'a/b' or of a node 'a/b/'
_get_parent_node(path, delim) ==
    LET endpos == IF endswith(path, delim) THEN Len(path) - 1 ELSE Len(path)
    IN  Prefix(path, RFind(path, delim, 0, endpos) + 1)

\* full path of a key under a rootpath, with an optional prepend
_build_path(rootpath, key, prepend, delim) ==
    join(filterNone(<<prepend, rootpath, key>>), delim)

(***************************************************************************)
(* Store: the internal dict self.d.  An entry is a leaf value or, at a key *)
(* ending with the delimiter, the set of children of a node.               *)
(***************************************************************************)
Leaf(v) == [node |-> FALSE, v |-> v, s |-> {}]

Node(S) == [node |-> TRUE, v |-> 0, s |-> S]

EmptyStore == [k \in {} |-> Leaf(0)]

\* self.d.__setitem__(k, e)
Put(st, k, e) == [x \in (DOMAIN st) \cup {k} |-> IF x = k THEN e ELSE st[x]]

\* the dict without the keys ks
Without(st, ks) == [x \in (DOMAIN st) \ ks |-> st[x]]

\* outcome of a call: the dict it leaves behind and the exception it raised
Ok(st) == [d |-> st, err |-> "none"]

Raise(st, e) == [d |-> st, err |-> e]

\* self.d.__delitem__(k)
dict_delitem(st, k) ==
    IF k \in DOMAIN st THEN Ok(Without(st, {k})) ELSE Raise(st, "KeyError")

\* for k in keystodel: self.d.__delitem__(k)
\* (a key of keystodel missing from the dict raises part-way through the loop,
\* in the order of the list; no reachable state of this model has one missing)
delete_all(st, ks) ==
    IF ks \subseteq DOMAIN st THEN Ok(Without(st, ks))
    ELSE Raise(Without(st, ks), "KeyError")

(***************************************************************************)
(* Flattener.  A nested mapping is a function from keys to MLeaf(v) or     *)
(* MDict(m).                                                               *)
(***************************************************************************)
MLeaf(v) == [leaf |-> TRUE, v |-> v, m |-> << >>]

MDict(m) == [leaf |-> FALSE, v |-> 0, m |-> m]

EmptyMap == [k \in {} |-> MLeaf(0)]

Map1(k, x) == [y \in {k} |-> x]

Map2(k1, x1, k2, x2) == [y \in {k1, k2} |-> IF y = k1 THEN x1 ELSE x2]

RECURSIVE FlatPairs(_, _, _)
FlatPairs(prefix, m, sep) ==
    UNION { IF m[k].leaf
            THEN { <<prefix \o k, m[k].v>> }
            ELSE FlatPairs(prefix \o k \o <<sep>>, m[k].m, sep)
          : k \in DOMAIN m }

\* flatkeys(d, sep): the flat mapping full key -> value
flatkeys(m, sep) ==
    LET pairs == FlatPairs(Empty, m, sep)
    IN  [k \in { p[1] : p \in pairs } |-> (CHOOSE p \in pairs : p[1] = k)[2]]

\* self.d.update(d2) for a flat mapping d2 of leaf values
dict_update(st, d2) ==
    [x \in (DOMAIN st) \cup (DOMAIN d2) |->
        IF x \in DOMAIN d2 THEN Leaf(d2[x]) ELSE st[x]]

(***************************************************************************)
(* Index maintenance (fastview).                                           *)
(***************************************************************************)
\* the loop with lastparent never advanced: every parent gets the leaf itself
RECURSIVE AddToParentsStale(_, _, _, _)
AddToParentsStale(st, parents, i, lastparent) ==
    IF i > Len(parents) THEN st
    ELSE LET parent == parents[i]
             st1 == IF parent \in DOMAIN st
                    THEN Put(st, parent, Node(st[parent].s \cup {lastparent}))
                    ELSE Put(st, parent, Node({lastparent}))
         IN  AddToParentsStale(st1, parents, i + 1, lastparent)

\* the loop over the parents of one leaf: add lastparent to each parent's set
RECURSIVE AddToParents(_, _, _, _)
AddToParents(st, parents, i, lastparent) ==
    IF i > Len(parents) THEN st
    ELSE LET parent == parents[i]
             st1 == IF parent \in DOMAIN st
                    THEN Put(st, parent, Node(st[parent].s \cup {lastparent}))
                    ELSE Put(st, parent, Node({lastparent}))
         IN  AddToParents(st1, parents, i + 1, parent)

\* _build_metadata(fullkeys), fastview branch
RECURSIVE _build_metadata(_, _, _)
_build_metadata(st, fullkeys, delim) ==
    IF fullkeys = {} THEN st
    ELSE LET fullkey == CHOOSE k \in fullkeys : TRUE
             st1 == IF endswith(fullkey, delim) THEN st
                    ELSE AddToParents(st, _get_all_parent_nodes(fullkey, delim), 1, fullkey)
         IN  _build_metadata(st1, fullkeys \ {fullkey}, delim)

(***************************************************************************)
(* Enumeration of keys.                                                    *)
(***************************************************************************)
\* the traversal of viewkeys in fastview mode: pop a child, expand a node
RECURSIVE Walk(_, _, _, _, _)
Walk(st, children, acc, nodes, delim) ==
    IF children = {} THEN [keys |-> acc, err |-> "none"]
    ELSE LET child == CHOOSE x \in children : TRUE
         IN  IF endswith(child, delim)
             THEN IF child \in DOMAIN st
                  THEN Walk(st, (children \ {child}) \cup st[child].s,
                            IF nodes THEN acc \cup {child} ELSE acc, nodes, delim)
                  ELSE [keys |-> acc, err |-> "KeyError"]
             ELSE Walk(st, children \ {child}, acc \cup {child}, nodes, delim)

\* viewkeys(fullpath, nodes, rootpath) of a structure with rootpath selfroot:
\* the set of keys it yields, and the exception the traversal raises
viewkeys(st, selfroot, fullpath, nodes, rootpath, delim, fast) ==
    LET root == IF rootpath = Empty THEN selfroot ELSE rootpath
        pattern == root \o <<delim>>
        lpattern == IF fullpath THEN 0 ELSE Len(pattern)
    IN  IF root = Empty
        THEN [keys |-> IF fast
                       THEN { k \in DOMAIN st : ~endswith(k, delim) \/ nodes }
                       ELSE DOMAIN st,
              err |-> "none"]
        ELSE IF fast
        THEN IF pattern \in DOMAIN st
             THEN LET w == Walk(st, st[pattern].s, {}, nodes, delim)
                  IN  [keys |-> { Suffix(k, lpattern) : k \in w.keys }, err |-> w.err]
             ELSE [keys |-> {}, err |-> "none"]
        ELSE [keys |-> { Suffix(k, lpattern) : k \in { x \in DOMAIN st : startswith(x, pattern) } },
              err |-> "none"]

(***************************************************************************)
(* __delitem__.                                                            *)
(***************************************************************************)
RECURSIVE __delitem__(_, _, _, _, _)
RECURSIVE remove_from_parent(_, _, _, _, _, _)

\* self.d[parentnode].remove(child), then the recursive delete of the
\* parent node when its set is left empty
remove_from_parent(st, rootpath, parentnode, child, delim, fast) ==
    IF parentnode \notin DOMAIN st THEN Raise(st, "KeyError")
    ELSE IF ~st[parentnode].node THEN Raise(st, "AttributeError")
    ELSE IF child \notin st[parentnode].s THEN Raise(st, "KeyError")
    ELSE LET st1 == Put(st, parentnode, Node(st[parentnode].s \ {child}))
         IN  IF st1[parentnode].s = {}
             THEN __delitem__(st1, rootpath, parentnode, delim, fast)
             ELSE Ok(st1)

\* the nested branch of __delitem__: no entry at fullkey itself
delitem_nested(st, rootpath, fullkey, delim, fast) ==
    LET dirkey == fullkey \o <<delim>>
    IN  IF fast
        THEN LET vk == viewkeys(st, rootpath, TRUE, TRUE, fullkey, delim, fast)
                 flagdel == dirkey \in DOMAIN st
                 st1 == IF flagdel THEN Without(st, {dirkey}) ELSE st
                 parentnode == _get_parent_node(dirkey, delim)
                 r2 == IF parentnode # Empty
                       THEN remove_from_parent(st1, rootpath, parentnode, dirkey, delim, fast)
                       ELSE Ok(st1)
                 r3 == delete_all(r2.d, vk.keys)
             IN  IF vk.err # "none" THEN Raise(st, vk.err)
                 ELSE IF r2.err # "none" THEN r2
                 ELSE IF r3.err # "none" THEN r3
                 ELSE IF vk.keys = {} /\ ~flagdel THEN Raise(r3.d, "KeyError")
                 ELSE r3
        ELSE LET keystodel == { k \in DOMAIN st : startswith(k, dirkey) }
             IN  IF keystodel = {} THEN Raise(st, "KeyError")
                 ELSE Ok(Without(st, keystodel))

\* __delitem__(key) on a structure with the given rootpath
__delitem__(st, rootpath, key, delim, fast) ==
    LET fullkey == _build_path(rootpath, key, Empty, delim)
    IN  IF fullkey \in DOMAIN st
        THEN LET parentnode == _get_parent_node(fullkey, delim)
                 r1 == IF fast /\ parentnode # Empty
                       THEN remove_from_parent(st, rootpath, parentnode, fullkey, delim, fast)
                       ELSE Ok(st)
             IN  IF r1.err # "none" THEN r1 ELSE dict_delitem(r1.d, fullkey)
        ELSE delitem_nested(st, rootpath, fullkey, delim, fast)

(***************************************************************************)
(* __setitem__.                                                            *)
(***************************************************************************)
\* the delimiter _get_all_parent_nodes falls back to when none is passed
DefaultDelimiter == "/"

\* the loop deleting every parent that is stored as a singleton
RECURSIVE delete_parent_singletons(_, _, _, _, _, _)
delete_parent_singletons(st, rootpath, parents, i, delim, fast) ==
    IF i > Len(parents) THEN Ok(st)
    ELSE LET parent == parents[i]
             parentleaf == Prefix(parent, Len(parent) - 1)
             r == IF parentleaf \in DOMAIN st
                  THEN __delitem__(st, rootpath, parentleaf, delim, fast)
                  ELSE Ok(st)
         IN  IF r.err # "none" THEN r
             ELSE delete_parent_singletons(r.d, rootpath, parents, i + 1, delim, fast)

\* __setitem__(key, value) for a value that is not a dict
setitem_leaf(st, rootpath, key, value, delim, fast) ==
    LET fullkey == _build_path(rootpath, key, Empty, delim)
        dirkey == fullkey \o <<delim>>
        r1 == IF dirkey \in DOMAIN st
              THEN __delitem__(st, rootpath, key, delim, fast)
              ELSE Ok(st)
        r2 == delete_parent_singletons(r1.d, rootpath,
                  _get_all_parent_nodes(fullkey, DefaultDelimiter), 1, delim, fast)
    IN  IF ~fast THEN Ok(Put(st, fullkey, Leaf(value)))
        ELSE IF r1.err # "none" THEN r1
        ELSE IF r2.err # "none" THEN r2
        ELSE Ok(Put(_build_metadata(r2.d, {fullkey}, delim), fullkey, Leaf(value)))

\* __setitem__(key, value) for a plain dict value
setitem_dict(st, rootpath, key, value, delim, fast) ==
    LET fullkey == _build_path(rootpath, key, Empty, delim)
        r1 == IF fullkey \in DOMAIN st
              THEN __delitem__(st, rootpath, key, delim, fast)
              ELSE Ok(st)
        d2 == flatkeys(Map1(_build_path(rootpath, Empty, key, delim), MDict(value)), delim)
        st2 == dict_update(r1.d, d2)
    IN  IF r1.err # "none" THEN r1
        ELSE IF value = EmptyMap THEN r1
        ELSE IF fast THEN Ok(_build_metadata(st2, DOMAIN d2, delim))
        ELSE Ok(st2)

(***************************************************************************)
(* __getitem__ and __contains__.                                           *)
(***************************************************************************)
\* what __getitem__ returns: a stored value, or a sub-fdict with a rootpath
RetLeaf(e) == [kind |-> "value", e |-> e, rootpath |-> Empty]

RetView(r) == [kind |-> "fdict", e |-> Leaf(0), rootpath |-> r]

NoRet == [kind |-> "none", e |-> Leaf(0), rootpath |-> Empty]

__getitem__(st, rootpath, key, delim) ==
    IF key \in DOMAIN st THEN RetLeaf(st[key])
    ELSE RetView(_build_path(rootpath, key, Empty, delim))

\* __contains__ without the node test of fastview mode
contains_leaf_only(st, rootpath, key, delim, fast) ==
    LET fullkey == _build_path(rootpath, key, Empty, delim)
        dirkey == fullkey \o <<delim>>
    IN  IF fullkey \in DOMAIN st THEN TRUE
        ELSE IF fast THEN FALSE
        ELSE \E k \in viewkeys(st, rootpath, FALSE, FALSE, Empty, delim, fast).keys :
                 startswith(k, dirkey)

__contains__(st, rootpath, key, delim, fast) ==
    LET fullkey == _build_path(rootpath, key, Empty, delim)
        dirkey == fullkey \o <<delim>>
    IN  IF fullkey \in DOMAIN st THEN TRUE
        ELSE IF fast THEN dirkey \in DOMAIN st
        ELSE \E k \in viewkeys(st, rootpath, FALSE, FALSE, Empty, delim, fast).keys :
                 startswith(k, dirkey)

(***************************************************************************)
(* Construction, items and update.                                         *)
(***************************************************************************)
\* a structure: its internal dict and the parameters fixed by __init__
Struct(st, rootpath, delim, fast) ==
    [d |-> st, rootpath |-> rootpath, delimiter |-> delim, fastview |-> fast]

\* fdict(m, delimiter=delim, fastview=fast) for a plain mapping m
fdict_init(m, delim, fast) ==
    LET flat == flatkeys(m, delim)
        st == dict_update(EmptyStore, flat)
    IN  Struct(IF fast THEN _build_metadata(st, DOMAIN flat, delim) ELSE st,
               Empty, delim, fast)

\* viewitems(fullpath, nodes) of a structure x: the mapping key -> entry it yields
viewitems(x, fullpath, nodes) ==
    LET vk == viewkeys(x.d, x.rootpath, TRUE, nodes, Empty, x.delimiter, x.fastview)
        lpattern == IF fullpath \/ x.rootpath = Empty THEN 0 ELSE Len(x.rootpath) + 1
    IN  [k \in { Suffix(f, lpattern) : f \in vk.keys } |->
            x.d[CHOOSE f \in vk.keys : Suffix(f, lpattern) = k]]

\* the argument of update: a plain mapping or another structure
PlainArg(m) == [struct |-> FALSE, m |-> m, x |-> Struct(EmptyStore, Empty, DefaultDelimiter, FALSE)]

StructArg(x) == [struct |-> TRUE, m |-> EmptyMap, x |-> x]

\* update(d2) on a structure with the given rootpath.  The leaves of d2 are
\* written under the rootpath.  Then, in fastview mode, _build_metadata is
\* handed (fullkey, value) tuples: for a structure d2 they come from the
\* generator d2items, which self.d.update has already exhausted, so nothing
\* is built; for a plain mapping the first tuple raises on fullkey.endswith.
update(st, rootpath, d2, delim, fast) ==
    LET items == IF d2.struct
                 THEN LET vi == viewitems(d2.x, FALSE, FALSE)
                      IN  [k \in DOMAIN vi |-> vi[k].v]
                 ELSE flatkeys(d2.m, delim)
        rebased == [f \in { _build_path(rootpath, k, Empty, delim) : k \in DOMAIN items } |->
                       items[CHOOSE k \in DOMAIN items :
                                 _build_path(rootpath, k, Empty, delim) = f]]
        st1 == dict_update(st, rebased)
    IN  IF fast /\ ~d2.struct /\ DOMAIN items # {}
        THEN Raise(st1, "AttributeError")
        ELSE Ok(st1)

\* __setitem__(key, value) for a value that is itself a structure:
\* self.update(self.__class__({key: value}))
setitem_struct(st, rootpath, key, value, delim, fast) ==
    LET fullkey == _build_path(rootpath, key, Empty, delim)
        r1 == IF fullkey \in DOMAIN st
              THEN __delitem__(st, rootpath, key, delim, fast)
              ELSE Ok(st)
        vi == viewitems(value, FALSE, FALSE)
        wrapped == [f \in { key \o <<DefaultDelimiter>> \o k : k \in DOMAIN vi } |->
                       Leaf(vi[CHOOSE k \in DOMAIN vi :
                                   key \o <<DefaultDelimiter>> \o k = f].v)]
    IN  IF r1.err # "none" THEN r1
        ELSE IF DOMAIN vi = {} THEN r1
        ELSE update(r1.d, rootpath,
                    StructArg(Struct(wrapped, Empty, DefaultDelimiter, FALSE)), delim, fast)

(***************************************************************************)
(* __len__ and __eq__.                                                     *)
(***************************************************************************)
\* len(x): the number it returns and the exception the enumeration raises
__len__(x) ==
    IF x.rootpath = Empty
    THEN [n |-> Cardinality(DOMAIN x.d), err |-> "none"]
    ELSE LET vk == viewkeys(x.d, x.rootpath, FALSE, FALSE, Empty, x.delimiter, x.fastview)
         IN  [n |-> Cardinality(vk.keys), err |-> vk.err]

\* x == d2 for d2 another structure or a plain mapping
__eq__(x, d2) ==
    IF d2.struct /\ x.rootpath = Empty
    THEN [ret |-> x.d = d2.x.d, err |-> "none"]
    ELSE LET flat == flatkeys(d2.m, x.delimiter)
             d2items == IF d2.struct
                        THEN viewitems(d2.x, FALSE, FALSE)
                        ELSE [k \in DOMAIN flat |-> Leaf(flat[k])]
             len2 == IF d2.struct THEN __len__(d2.x)
                     ELSE [n |-> Cardinality(DOMAIN flat), err |-> "none"]
             len1 == __len__(x)
         IN  IF len1.err # "none" THEN [ret |-> FALSE, err |-> len1.err]
             ELSE IF len2.err # "none" THEN [ret |-> FALSE, err |-> len2.err]
             ELSE IF len1.n # len2.n THEN [ret |-> FALSE, err |-> "none"]
             ELSE [ret |-> \A k \in DOMAIN d2items :
                              LET fullkey == _build_path(x.rootpath, k, Empty, x.delimiter)
                              IN  fullkey \in DOMAIN x.d /\ x.d[fullkey] = d2items[k],
                   err |-> "none"]

(***************************************************************************)
(* Structures derived from another one.  A derived structure has its own   *)
(* dict object or the very dict of its source (samedict); when the dicts   *)
(* are distinct, sharedsets are the node keys bound in both dicts to one   *)
(* and the same set object.  src is the source dict after the call.        *)
(***************************************************************************)
Derived(st, same, shared, src) ==
    [d |-> st, samedict |-> same, sharedsets |-> shared, src |-> src]

\* the keys of a dict that are bound to set objects
SetKeys(st) == { k \in DOMAIN st : st[k].node }

\* __init__(d=dobj, rootpath, delimiter, fastview) for a dict object dobj:
\* with a rootpath the dict is taken as it is; without one it is flattened
\* into a new dict, whose values are the same objects, and in fastview mode
\* _build_metadata then adds to those sets in place
init_from_dict(dobj, rootpath, delim, fast) ==
    IF rootpath # Empty
    THEN Derived(dobj, TRUE, SetKeys(dobj), dobj)
    ELSE LET built == IF fast THEN _build_metadata(dobj, DOMAIN dobj, delim) ELSE dobj
         IN  Derived(built, FALSE, SetKeys(dobj),
                     [k \in DOMAIN dobj |-> IF k \in SetKeys(dobj) THEN built[k] ELSE dobj[k]])

\* a sub-fdict built on a dict of its own
view_detached(st, fullkey, delim, fast) == Derived(st, FALSE, {}, st)

\* the sub-fdict __getitem__ returns: fdict(d=self.d, rootpath=fullkey, ...)
view_of(st, fullkey, delim, fast) == init_from_dict(st, fullkey, delim, fast)

\* copy() without the loop that copies the sets of the nodes
copy_shallow(st, rootpath, delim, fast) ==
    LET f == init_from_dict(st, rootpath, delim, fast)
    IN  Derived(f.d, FALSE, SetKeys(st) \cap SetKeys(f.d), f.src)

\* copy(): a new structure on self.d.copy(), then in fastview mode every
\* entry at a key ending with the delimiter is replaced by a copy of its set
copy(st, rootpath, delim, fast) ==
    LET f == init_from_dict(st, rootpath, delim, fast)
        copied == IF fast THEN { k \in DOMAIN f.d : endswith(k, delim) } ELSE {}
    IN  Derived(f.d, FALSE, (SetKeys(st) \cap SetKeys(f.d)) \ copied, f.src)

\* the dict target after an operation took another dict from pre to post:
\* a set object bound in both dicts shows in target what the operation
\* added to it and removed from it while it stayed bound
Seen(target, post, shared) ==
    [k \in DOMAIN target |-> IF k \in shared /\ k \in DOMAIN post THEN post[k] ELSE target[k]]

NoOther ==
    [kind |-> "none", x |-> Struct(EmptyStore, Empty, DefaultDelimiter, FALSE),
     samedict |-> FALSE, sharedsets |-> {}]

(***************************************************************************)
(* sfdict: the structure on a shelve file.                                 *)
(***************************************************************************)
NoFile == "none"

GivenFile == "filename"

\* sfdict(m, delimiter, fastview[, filename]).  fdict.__init__ flattens m
\* into self.d, then self.d is replaced by shelve.open(self.filename): a
\* given filename (of a file that does not exist yet) opens a new, empty
\* shelf; without one the name is that of an empty temporary file, for
\* which dbm cannot determine a type and raises.
sfdict_init(m, delim, fast, named) ==
    LET flat == fdict_init(m, delim, fast).d
    IN  IF named THEN Ok(EmptyStore) ELSE Raise(flat, "error")

\* __getitem__ of an sfdict with a filename, when it returns a sub-fdict:
\* sfdict(d=self.d, rootpath=fullkey, filename=self.filename, ...) takes
\* dict(self.d), then replaces it by shelve.open of the file the parent
\* has open.  Depending on the dbm module the second open raises, or gives
\* a shelf of its own holding what the parent has synced to the file.
sfdict_view(st, fullkey, delim, fast, opened) ==
    IF opened THEN [err |-> "none", v |-> Derived(st, FALSE, {}, st)]
    ELSE [err |-> "error", v |-> Derived(st, FALSE, {}, st)]

(***************************************************************************)
(* Inputs.                                                                 *)
(***************************************************************************)
A == <<"a">>

B == <<"b">>

\* the nested (and flat) mappings given to __setitem__, update and fdict()
Dicts(delim) ==
    { EmptyMap,
      Map1(A, MDict(EmptyMap)),
      Map1(A, MLeaf(1)),
      Map1(A, MDict(Map1(B, MLeaf(2)))),
      Map2(Path(<<"a", "b">>, delim), MLeaf(1), B, MDict(Map1(A, MLeaf(2)))) }

\* the structures given as values and as arguments of update
Structs(delim) ==
    { fdict_init(m, delim, TRUE) :
        m \in { Map1(A, MDict(Map1(B, MLeaf(2)))),
                Map2(Path(<<"a", "b">>, delim), MLeaf(1), B, MDict(Map1(A, MLeaf(2)))) } }

\* the views an operation can be issued through: the top-level structure
\* and the sub-fdict last returned by __getitem__
Roots == {Empty, view}

(***************************************************************************)
(* State machine.                                                          *)
(***************************************************************************)
Op(op, rootpath, key, value, m, r, ret) ==
    [op |-> op, rootpath |-> rootpath, key |-> key, value |-> value, m |-> m,
     pre |-> d, err |-> r.err, ret |-> ret]

Init ==
    /\ delimiter \in Delims
    /\ d = EmptyStore
    /\ c = EmptyStore
    /\ view = Empty
    /\ conflict = FALSE
    /\ filename = NoFile
    /\ other = NoOther
    /\ nops = 0
    /\ last = [op |-> "init", rootpath |-> Empty, key |-> Empty, value |-> 0,
               m |-> PlainArg(EmptyMap), pre |-> EmptyStore, err |-> "none", ret |-> NoRet]

\* x[key] through the root or a view
GetItem(rootpath, key) ==
    LET ret == __getitem__(d, rootpath, key, delimiter)
    IN  /\ nops < MaxOps
        /\ nops' = nops + 1
        /\ view' = IF ret.kind = "fdict" THEN ret.rootpath ELSE view
        /\ last' = Op("get", rootpath, key, 0, PlainArg(EmptyMap), Ok(d), ret)
        /\ UNCHANGED <<delimiter, filename, other, d, c, conflict>>

\* x[key] = value for a value that is not a dict
SetLeaf(rootpath, key, value) ==
    LET r == setitem_leaf(d, rootpath, key, value, delimiter, TRUE)
    IN  /\ nops < MaxOps
        /\ nops' = nops + 1
        /\ d' = r.d
        /\ last' = Op("setleaf", rootpath, key, value, PlainArg(EmptyMap), r, NoRet)
        /\ UNCHANGED <<delimiter, filename, other, c, view, conflict>>

\* x[key] = m for a plain dict m
SetDict(rootpath, key, m) ==
    LET r == setitem_dict(d, rootpath, key, m, delimiter, TRUE)
    IN  /\ nops < MaxOps
        /\ nops' = nops + 1
        /\ d' = r.d
        /\ last' = Op("setdict", rootpath, key, 0, PlainArg(m), r, NoRet)
        /\ UNCHANGED <<delimiter, filename, other, c, view, conflict>>

\* x[key] = y for another structure y
SetStruct(rootpath, key, y) ==
    LET r == setitem_struct(d, rootpath, key, y, delimiter, TRUE)
    IN  /\ nops < MaxOps
        /\ nops' = nops + 1
        /\ d' = r.d
        /\ last' = Op("setstruct", rootpath, key, 0, StructArg(y), r, NoRet)
        /\ UNCHANGED <<delimiter, filename, other, c, view, conflict>>

\* del x[key]
DelItem(rootpath, key) ==
    LET r == __delitem__(d, rootpath, key, delimiter, TRUE)
    IN  /\ nops < MaxOps
        /\ nops' = nops + 1
        /\ d' = r.d
        /\ last' = Op("del", rootpath, key, 0, PlainArg(EmptyMap), r, NoRet)
        /\ UNCHANGED <<delimiter, filename, other, c, view, conflict>>

\* x.update(d2)
Update(rootpath, d2) ==
    LET r == update(d, rootpath, d2, delimiter, TRUE)
    IN  /\ nops < MaxOps
        /\ nops' = nops + 1
        /\ d' = r.d
        /\ last' = Op("update", rootpath, Empty, 0, d2, r, NoRet)
        /\ UNCHANGED <<delimiter, filename, other, c, view, conflict>>

Next ==
    \/ \E rootpath \in Roots, key \in Keys(delimiter) : GetItem(rootpath, key)
    \/ \E rootpath \in Roots, key \in Keys(delimiter), value \in Values :
           SetLeaf(rootpath, key, value)
    \/ \E rootpath \in Roots, key \in Keys(delimiter), m \in Dicts(delimiter) :
           SetDict(rootpath, key, m)
    \/ \E rootpath \in Roots, key \in Keys(delimiter), y \in Structs(delimiter) :
           SetStruct(rootpath, key, y)
    \/ \E rootpath \in Roots, key \in Keys(delimiter) : DelItem(rootpath, key)
    \/ \E rootpath \in Roots, m \in Dicts(delimiter) : Update(rootpath, PlainArg(m))
    \/ \E rootpath \in Roots, y \in Structs(delimiter) : Update(rootpath, StructArg(y))

Spec == Init /\ [][Next]_vars

(***************************************************************************)
(* The top-level structure alone: set (leaf or nested mapping) and delete  *)
(* issued through the root.                                                *)
(***************************************************************************)
TopSetLeaf(key, value) == SetLeaf(Empty, key, value)

TopSetDict(key, m) == SetDict(Empty, key, m)

TopDelItem(key) == DelItem(Empty, key)

NextTop ==
    \/ \E key \in Keys(delimiter), value \in Values : TopSetLeaf(key, value)
    \/ \E key \in Keys(delimiter), m \in Dicts(delimiter) : TopSetDict(key, m)
    \/ \E key \in Keys(delimiter) : TopDelItem(key)

SpecTop == Init /\ [][NextTop]_vars

(***************************************************************************)
(* A fastview structure (d) and a non-fastview structure (c) given the     *)
(* same sequence of leaf inserts and deletes.                              *)
(***************************************************************************)
\* the insert of a leaf at key meets a leaf/node conflict in the store st:
\* something is stored below key, or a leaf is stored at an ancestor of key
Conflicts(st, key, delim) ==
    \E k \in DOMAIN st :
        \/ startswith(k, key \o <<delim>>)
        \/ startswith(key, k \o <<delim>>)

BothInsert(key, value) ==
    LET rf == setitem_leaf(d, Empty, key, value, delimiter, TRUE)
        rc == setitem_leaf(c, Empty, key, value, delimiter, FALSE)
    IN  /\ nops < MaxPairOps
        /\ nops' = nops + 1
        /\ d' = rf.d
        /\ c' = rc.d
        /\ conflict' = (conflict \/ Conflicts(c, key, delimiter))
        /\ last' = Op("setleaf", Empty, key, value, PlainArg(EmptyMap), rf, NoRet)
        /\ UNCHANGED <<delimiter, filename, other, view>>

BothDelete(key) ==
    LET rf == __delitem__(d, Empty, key, delimiter, TRUE)
        rc == __delitem__(c, Empty, key, delimiter, FALSE)
    IN  /\ nops < MaxPairOps
        /\ nops' = nops + 1
        /\ d' = rf.d
        /\ c' = rc.d
        /\ last' = Op("del", Empty, key, 0, PlainArg(EmptyMap), rf, NoRet)
        /\ UNCHANGED <<delimiter, filename, other, view, conflict>>

NextModes ==
    \/ \E key \in Keys(delimiter), value \in Values : BothInsert(key, value)
    \/ \E key \in Keys(delimiter) : BothDelete(key)

SpecModes == Init /\ [][NextModes]_vars

(***************************************************************************)
(* Vocabulary of the properties.                                           *)
(***************************************************************************)
IsNodeKey(k) == endswith(k, delimiter)

LeafKeys(st) == { k \in DOMAIN st : ~IsNodeKey(k) }

NodeKeys(st) == { k \in DOMAIN st : IsNodeKey(k) }

\* the node keys of the proper ancestors of a path: 'a/', 'a/b/' for 'a/b/c'
Ancestors(k) == { Prefix(k, i) : i \in { j \in 1 .. (Len(k) - 1) : k[j] = delimiter } }

\* the entries stored exactly one segment below the node key n
ChildrenOf(st, n) ==
    { k \in DOMAIN st :
        /\ k # n
        /\ startswith(k, n)
        /\ LET rest == Suffix(k, Len(n))
               body == IF IsNodeKey(rest) THEN Prefix(rest, Len(rest) - 1) ELSE rest
           IN  body # Empty /\ \A i \in 1 .. Len(body) : body[i] # delimiter }

\* the child-sets lead from every ancestor of the stored leaf k down to k
ChainTo(st, k) ==
    \A n \in Ancestors(k) :
        /\ n \in DOMAIN st
        /\ st[n].node
        /\ \E ch \in st[n].s : ch = k \/ (IsNodeKey(ch) /\ startswith(k, ch))

\* the full key an operation addresses
FullKey(o) == IF o.rootpath = Empty THEN o.key ELSE o.rootpath \o <<delimiter>> \o o.key

Completed(ops) == last.op \in ops /\ last.err = "none"

(***************************************************************************)
(* C1: get(K) on a view with rootpath R returns the stored leaf value when *)
(* a leaf is stored at the full path of K under R, and otherwise a view    *)
(* with that full path as rootpath.                                        *)
(***************************************************************************)
C1_GetLeafOrView ==
    last.op = "get" =>
        IF FullKey(last) \in LeafKeys(d)
        THEN last.ret = RetLeaf(d[FullKey(last)])
        ELSE last.ret = RetView(FullKey(last))

C3_LeafXorNode ==
    Completed({"setleaf", "setdict", "setstruct", "del", "update"}) =>
        \A k \in LeafKeys(d) : (k \o <<delimiter>>) \notin DOMAIN d

(***************************************************************************)
(* C4: a fastview and a non-fastview structure given the same leaf inserts *)
(* and deletes answer contains(p) alike, and as a full scan of the stored  *)
(* leaves does.                                                            *)
(***************************************************************************)
\* the reference: a leaf is stored at p, or a stored leaf path starts with p + delimiter
FullScan(st, p) ==
    \E k \in LeafKeys(st) : k = p \/ startswith(k, p \o <<delimiter>>)

ContainsFast(p) == __contains__(d, Empty, p, delimiter, TRUE)

ContainsPlain(p) == __contains__(c, Empty, p, delimiter, FALSE)

\* the claim as stated: the modes agree after every sequence
C4_ModesAgree ==
    \A p \in Keys(delimiter) :
        /\ ContainsFast(p) = ContainsPlain(p)
        /\ ContainsFast(p) = FullScan(d, p)
        /\ ContainsPlain(p) = FullScan(c, p)

\* amended: each mode answers as the full scan of its own leaves, and the
\* modes agree as long as no insert has met a leaf/node conflict
C4_ModesAgreeWithoutConflict ==
    \A p \in Keys(delimiter) :
        /\ ContainsFast(p) = FullScan(d, p)
        /\ ContainsPlain(p) = FullScan(c, p)
        /\ ~conflict => ContainsFast(p) = ContainsPlain(p)

\* no conflict so far, a delete has just removed a whole subtree in both
\* structures, and a node with a leaf below it is still contained
C4_Witness ==
    /\ ~conflict
    /\ Completed({"del"})
    /\ Cardinality(LeafKeys(last.pre) \ LeafKeys(d)) >= 2
    /\ \E p \in Keys(delimiter) : p \notin DOMAIN d /\ ContainsFast(p) /\ ContainsPlain(p)

(***************************************************************************)
(* C5: a set or a delete issued through a view with rootpath R and key K   *)
(* leaves the same store and the same success or error as the operation    *)
(* issued through the top-level structure with the key R + delimiter + K.  *)
(***************************************************************************)
\* the last operation, issued through the top-level structure on the store st
AtTopLevel(st, key) ==
    CASE last.op = "setleaf" -> setitem_leaf(st, Empty, key, last.value, delimiter, TRUE)
      [] last.op = "setdict" -> setitem_dict(st, Empty, key, last.m.m, delimiter, TRUE)
      [] OTHER               -> __delitem__(st, Empty, key, delimiter, TRUE)

C5_ViewSameAsTopLevel ==
    (last.op \in {"setleaf", "setdict", "del"} /\ last.rootpath # Empty) =>
        LET r == AtTopLevel(last.pre, FullKey(last))
        IN  /\ d = r.d
            /\ (last.err = "none") <=> (r.err = "none")

(***************************************************************************)
(* C6: update(d2) on a view with rootpath R completes without error, every *)
(* leaf k -> v of flatten(d2) is stored at R + delimiter + k, and every    *)
(* ancestor of each new leaf has a node entry whose child-set holds the    *)
(* next path down towards that leaf.                                       *)
(***************************************************************************)
\* flatten(d2): relative leaf key -> value
FlattenArg(a) ==
    IF a.struct
    THEN [k \in { x \in DOMAIN a.x.d : ~endswith(x, a.x.delimiter) } |-> a.x.d[k].v]
    ELSE flatkeys(a.m, delimiter)

Under(rootpath, k) == IF rootpath = Empty THEN k ELSE rootpath \o <<delimiter>> \o k

C6_UpdateStoresAndIndexes ==
    last.op = "update" =>
        /\ last.err = "none"
        /\ \A k \in DOMAIN FlattenArg(last.m) :
              LET f == Under(last.rootpath, k)
              IN  /\ f \in DOMAIN d
                  /\ d[f] = Leaf(FlattenArg(last.m)[k])
                  /\ ChainTo(d, f)

(***************************************************************************)
(* C7: deleting a stored leaf P removes P and exactly the ancestor node    *)
(* entries left without a descendant; an ancestor that keeps a descendant  *)
(* keeps its node entry minus the removed child; nothing else changes.     *)
(***************************************************************************)
C7_LeafDeleteCascadesExactly ==
    (last.op = "del" /\ FullKey(last) \in LeafKeys(last.pre)) =>
        LET P == FullKey(last)
            pre == last.pre
        IN  /\ last.err = "none"
            /\ P \notin DOMAIN d
            /\ DOMAIN d \subseteq DOMAIN pre
            /\ \A k \in DOMAIN pre \ ({P} \cup Ancestors(P)) :
                  k \in DOMAIN d /\ d[k] = pre[k]
            /\ \A n \in Ancestors(P) \cap DOMAIN pre :
                  IF \E k \in LeafKeys(d) : startswith(k, n)
                  THEN n \in DOMAIN d /\ d[n].s = pre[n].s \cap DOMAIN d
                  ELSE n \notin DOMAIN d

(***************************************************************************)
(* C8: set(P, v) of a non-mapping value while a node entry is stored at    *)
(* P + delimiter removes every entry of the subtree under P; afterwards P  *)
(* is the single leaf P = v, and its parent's child-set holds P as a leaf  *)
(* and not as a node.                                                      *)
(***************************************************************************)
C8_LeafOverNodeReplacesSubtree ==
    (last.op = "setleaf" /\ (FullKey(last) \o <<delimiter>>) \in DOMAIN last.pre) =>
        LET P == FullKey(last)
            dirkey == P \o <<delimiter>>
        IN  /\ last.err = "none"
            /\ \A k \in DOMAIN d : ~startswith(k, dirkey)
            /\ P \in DOMAIN d
            /\ d[P] = Leaf(last.value)
            /\ \A n \in Ancestors(P) :
                  Len(n) = Max({ Len(x) : x \in Ancestors(P) }) =>
                      /\ n \in DOMAIN d
                      /\ P \in d[n].s
                      /\ dirkey \notin d[n].s

(***************************************************************************)
(* C9: set(P, v) of a leaf while a proper ancestor of P, at any depth, is  *)
(* stored as a leaf deletes that ancestor's leaf entry; afterwards the     *)
(* ancestor is a node only, and the child-sets lead down to P.             *)
(***************************************************************************)
\* the proper ancestors of P stored as leaves in st
LeafAncestors(st, P) ==
    { Prefix(n, Len(n) - 1) : n \in Ancestors(P) } \cap LeafKeys(st)

C9_LeafUnderLeafDeletesAncestor ==
    (last.op = "setleaf" /\ LeafAncestors(last.pre, FullKey(last)) # {}) =>
        LET P == FullKey(last)
        IN  /\ last.err = "none"
            /\ LeafAncestors(d, P) = {}
            /\ P \in DOMAIN d
            /\ d[P] = Leaf(last.value)
            /\ ChainTo(d, P)

(***************************************************************************)
(* C10: setting a non-empty nested mapping at a key stored as a leaf       *)
(* removes the singleton and stores the flattened leaves of the mapping    *)
(* under that key, and no other leaf changes.                              *)
(***************************************************************************)
C10_DictOverLeafReplacesSingleton ==
    (last.op = "setdict" /\ last.m.m # EmptyMap /\ FullKey(last) \in LeafKeys(last.pre)) =>
        LET P == FullKey(last)
            flat == flatkeys(last.m.m, delimiter)
            new == { P \o <<delimiter>> \o k : k \in DOMAIN flat }
        IN  /\ last.err = "none"
            /\ P \notin DOMAIN d
            /\ \A k \in DOMAIN flat :
                  LET f == P \o <<delimiter>> \o k
                  IN  f \in DOMAIN d /\ d[f] = Leaf(flat[k])
            /\ LeafKeys(d) = (LeafKeys(last.pre) \ {P}) \cup new
            /\ \A k \in LeafKeys(d) \ new : d[k] = last.pre[k]

(***************************************************************************)
(* C11: set(K, {}) with an empty mapping is a no-op: it completes and      *)
(* leaves the store exactly as it was, whether K is stored as a leaf, as a *)
(* node, or not at all.                                                    *)
(***************************************************************************)
C11_EmptyDictIsNoOp ==
    (last.op = "setdict" /\ last.m.m = EmptyMap) =>
        /\ last.err = "none"
        /\ d = last.pre

(***************************************************************************)
(* C12: delete(K) raises KeyError iff neither a leaf at K nor a leaf below *)
(* K is stored; when a leaf is stored at K that leaf is deleted and the    *)
(* leaves below K stay; otherwise every leaf below K is deleted.  Leaves   *)
(* outside K are never touched.                                            *)
(***************************************************************************)
\* the leaves stored strictly below the path P
LeavesBelow(st, P) == { k \in LeafKeys(st) : startswith(k, P \o <<delimiter>>) }

\* delete(P) took the store pre to the store post with the outcome err
DeleteContract(pre, post, err, P) ==
    LET isleaf == P \in LeafKeys(pre)
        below == LeavesBelow(pre, P)
    IN  /\ (err = "KeyError") <=> (~isleaf /\ below = {})
        /\ err \in {"none", "KeyError"}
        /\ isleaf => LeafKeys(post) = LeafKeys(pre) \ {P}
        /\ (~isleaf /\ below # {}) => LeafKeys(post) = LeafKeys(pre) \ below
        /\ \A k \in LeafKeys(post) : post[k] = pre[k]

C12_DeleteLeafOrSubtreeOrKeyError ==
    last.op = "del" => DeleteContract(last.pre, d, last.err, FullKey(last))

(***************************************************************************)
(* C13: a delete that raises, through the top-level structure or a view,   *)
(* leaves the store exactly as it was before the call: no leaf removed, no *)
(* child removed from a child-set, no empty child-set left stored.         *)
(***************************************************************************)
C13_FailedDeleteChangesNothing ==
    (last.op = "del" /\ last.err # "none") => d = last.pre

(***************************************************************************)
(* Merging a structure built with other parameters: update(d2) on the      *)
(* top-level fastview structure, for a d2 built without fastview or with   *)
(* the other delimiter.                                                    *)
(***************************************************************************)
\* structures that differ from a fastview receiver with delimiter delim
ForeignStructs(delim) ==
    LET ms(dl) == { Map1(A, MDict(Map1(B, MLeaf(2)))),
                    Map2(Path(<<"a", "b">>, dl), MLeaf(1), B, MDict(Map1(A, MLeaf(2)))) }
    IN  { fdict_init(m, delim, FALSE) : m \in ms(delim) }
        \cup UNION { { fdict_init(m, dl, fast) : m \in ms(dl), fast \in BOOLEAN }
                     : dl \in Delims \ {delim} }

MergeForeign(y) == Update(Empty, StructArg(y))

NextMerge ==
    \/ \E key \in Keys(delimiter), value \in Values : TopSetLeaf(key, value)
    \/ \E key \in Keys(delimiter) : TopDelItem(key)
    \/ \E y \in ForeignStructs(delimiter) : MergeForeign(y)

SpecMerge == Init /\ [][NextMerge]_vars

(***************************************************************************)
(* C14: update(d2) with a structure d2 built in the other mode or with     *)
(* another delimiter than the receiver raises an error and leaves the      *)
(* receiver's store and index as they were.                                *)
(***************************************************************************)
Mismatched(y) == y.delimiter # delimiter \/ ~y.fastview

C14_MismatchedUpdateFailsFast ==
    (last.op = "update" /\ last.m.struct /\ Mismatched(last.m.x)) =>
        /\ last.err # "none"
        /\ d = last.pre

(***************************************************************************)
(* A fastview structure x (dict d) and a structure derived from it: the    *)
(* sub-fdict v = x[key] or the copy x.copy().  Leaves are set and deleted  *)
(* through x and through the derived structure.                            *)
(***************************************************************************)
\* the keys still bound to one set object in both dicts after an operation
\* took one of the dicts to post
StillShared(o, post) ==
    IF o.samedict THEN SetKeys(post) ELSE o.sharedsets \cap DOMAIN post

\* the derived structure after an operation through x took x's dict to post
Reflect(o, post) ==
    IF o.kind = "none" THEN o
    ELSE [o EXCEPT !.x.d = IF o.samedict THEN post ELSE Seen(o.x.d, post, o.sharedsets),
                   !.sharedsets = StillShared(o, post)]

\* x's dict after an operation through the derived structure took its dict to post
Reflected(o, post) ==
    IF o.samedict THEN post ELSE Seen(d, post, o.sharedsets)

\* v = x[key], when it is a sub-fdict
MakeView(key) ==
    LET ret == __getitem__(d, Empty, key, delimiter)
        v == view_of(d, ret.rootpath, delimiter, TRUE)
    IN  /\ nops < MaxAliasOps
        /\ ret.kind = "fdict"
        /\ nops' = nops + 1
        /\ d' = v.src
        /\ other' = [kind |-> "view", x |-> Struct(v.d, ret.rootpath, delimiter, TRUE),
                     samedict |-> v.samedict, sharedsets |-> v.sharedsets]
        /\ last' = Op("get", Empty, key, 0, PlainArg(EmptyMap), Ok(d), ret)
        /\ UNCHANGED <<delimiter, filename, c, view, conflict>>

\* y = x.copy()
MakeCopy ==
    LET f == copy(d, Empty, delimiter, TRUE)
    IN  /\ nops < MaxAliasOps
        /\ nops' = nops + 1
        /\ d' = f.src
        /\ other' = [kind |-> "copy", x |-> Struct(f.d, Empty, delimiter, TRUE),
                     samedict |-> f.samedict, sharedsets |-> f.sharedsets]
        /\ last' = Op("copy", Empty, Empty, 0, PlainArg(EmptyMap), Ok(d), NoRet)
        /\ UNCHANGED <<delimiter, filename, c, view, conflict>>

\* x[key] = value
XSetLeaf(key, value) ==
    LET r == setitem_leaf(d, Empty, key, value, delimiter, TRUE)
    IN  /\ nops < MaxAliasOps
        /\ nops' = nops + 1
        /\ d' = r.d
        /\ other' = Reflect(other, r.d)
        /\ last' = Op("setleaf", Empty, key, value, PlainArg(EmptyMap), r, NoRet)
        /\ UNCHANGED <<delimiter, filename, c, view, conflict>>

\* del x[key]
XDelItem(key) ==
    LET r == __delitem__(d, Empty, key, delimiter, TRUE)
    IN  /\ nops < MaxAliasOps
        /\ nops' = nops + 1
        /\ d' = r.d
        /\ other' = Reflect(other, r.d)
        /\ last' = Op("del", Empty, key, 0, PlainArg(EmptyMap), r, NoRet)
        /\ UNCHANGED <<delimiter, filename, c, view, conflict>>

\* y[key] = value through the derived structure y
OSetLeaf(key, value) ==
    LET r == setitem_leaf(other.x.d, other.x.rootpath, key, value, delimiter, TRUE)
    IN  /\ nops < MaxAliasOps
        /\ other.kind # "none"
        /\ nops' = nops + 1
        /\ d' = Reflected(other, r.d)
        /\ other' = [other EXCEPT !.x.d = r.d, !.sharedsets = StillShared(other, r.d)]
        /\ last' = Op("other.setleaf", other.x.rootpath, key, value, PlainArg(EmptyMap), r, NoRet)
        /\ UNCHANGED <<delimiter, filename, c, view, conflict>>

\* del y[key] through the derived structure y
ODelItem(key) ==
    LET r == __delitem__(other.x.d, other.x.rootpath, key, delimiter, TRUE)
    IN  /\ nops < MaxAliasOps
        /\ other.kind # "none"
        /\ nops' = nops + 1
        /\ d' = Reflected(other, r.d)
        /\ other' = [other EXCEPT !.x.d = r.d, !.sharedsets = StillShared(other, r.d)]
        /\ last' = Op("other.del", other.x.rootpath, key, 0, PlainArg(EmptyMap), r, NoRet)
        /\ UNCHANGED <<delimiter, filename, c, view, conflict>>

NextAlias ==
    \/ \E key \in Keys(delimiter) : MakeView(key)
    \/ MakeCopy
    \/ \E key \in Keys(delimiter), value \in Values : XSetLeaf(key, value)
    \/ \E key \in Keys(delimiter) : XDelItem(key)
    \/ \E key \in Keys(delimiter), value \in Values : OSetLeaf(key, value)
    \/ \E key \in Keys(delimiter) : ODelItem(key)

SpecAlias == Init /\ [][NextAlias]_vars

(***************************************************************************)
(* C15: after y = x.copy() in fastview mode, a set or a delete through y   *)
(* leaves every contains() result and every enumeration of x as it was,    *)
(* and a set or a delete through x leaves those of y as they were.         *)
(***************************************************************************)
\* what a structure on the dict st shows: contains() of every key, and its
\* enumerations of keys (with the nodes) and of items
Observed(st) ==
    [contains |-> [k \in Keys(delimiter) |-> __contains__(st, Empty, k, delimiter, TRUE)],
     keys     |-> viewkeys(st, Empty, TRUE, TRUE, Empty, delimiter, TRUE),
     items    |-> viewitems(Struct(st, Empty, delimiter, TRUE), TRUE, TRUE)]

C15_CopyIndependent ==
    [][(other.kind = "copy" /\ other'.kind = "copy") =>
          /\ last'.op \in {"other.setleaf", "other.del"} => Observed(d') = Observed(d)
          /\ last'.op \in {"setleaf", "del"} => Observed(other'.x.d) = Observed(other.x.d)]_vars

\* a delete through the copy has removed a leaf and cascaded in the copy's
\* index, under a node that x still has
C15_Witness ==
    /\ other.kind = "copy"
    /\ last.op = "other.del"
    /\ last.err = "none"
    /\ LeafKeys(other.x.d) # LeafKeys(d)
    /\ \E n \in NodeKeys(d) : n \notin DOMAIN other.x.d \/ other.x.d[n].s # d[n].s

(***************************************************************************)
(* C16: a sub-fdict v = x[key] reads and writes the dict of x: after every *)
(* set or delete through x or through v, whichever came first, the view or *)
(* the mutation, v's dict is x's dict, so contains and enumeration         *)
(* through v show what was done through x and conversely.                  *)
(***************************************************************************)
\* what the view with rootpath R shows on the dict st
ObservedUnder(st, R) ==
    [contains |-> [k \in Keys(delimiter) |-> __contains__(st, R, k, delimiter, TRUE)],
     keys     |-> viewkeys(st, R, FALSE, TRUE, Empty, delimiter, TRUE).keys]

NewFdict(m) ==
    /\ nops < MaxAliasOps
    /\ nops' = nops + 1
    /\ d' = fdict_init(m, delimiter, TRUE).d
    /\ c' = fdict_init(m, delimiter, FALSE).d
    /\ filename' = NoFile
    /\ other' = NoOther
    /\ last' = Op("fdict", Empty, Empty, 0, PlainArg(m), Ok(d), NoRet)
    /\ UNCHANGED <<delimiter, view, conflict>>

\* x = sfdict(m, delimiter, fastview, filename=...) or without a filename;
\* when the constructor raises there is no new structure
NewSfdict(m, named) ==
    LET rf == sfdict_init(m, delimiter, TRUE, named)
        rc == sfdict_init(m, delimiter, FALSE, named)
    IN  /\ nops < MaxAliasOps
        /\ nops' = nops + 1
        /\ last' = Op("sfdict", Empty, Empty, 0, PlainArg(m), rf, NoRet)
        /\ IF rf.err = "none"
           THEN /\ d' = rf.d
                /\ c' = rc.d
                /\ filename' = GivenFile
                /\ other' = NoOther
           ELSE UNCHANGED <<d, c, filename, other>>
        /\ UNCHANGED <<delimiter, view, conflict>>

\* v = x[key] on an sfdict, when it is a sub-fdict
ShelfView(key, opened) ==
    LET ret == __getitem__(d, Empty, key, delimiter)
        r == sfdict_view(d, ret.rootpath, delimiter, TRUE, opened)
    IN  /\ nops < MaxAliasOps
        /\ filename # NoFile
        /\ other.kind = "none"
        /\ ret.kind = "fdict"
        /\ nops' = nops + 1
        /\ other' = IF r.err = "none"
                    THEN [kind |-> "view", x |-> Struct(r.v.d, ret.rootpath, delimiter, TRUE),
                          samedict |-> r.v.samedict, sharedsets |-> r.v.sharedsets]
                    ELSE other
        /\ last' = Op("get", Empty, key, 0, PlainArg(EmptyMap), Raise(d, r.err), ret)
        /\ UNCHANGED <<delimiter, d, c, view, conflict, filename>>

NextShelf ==
    \/ \E m \in Dicts(delimiter) : NewFdict(m)
    \/ \E m \in Dicts(delimiter), named \in BOOLEAN : NewSfdict(m, named)
    \/ \E key \in Keys(delimiter), opened \in BOOLEAN : ShelfView(key, opened)
    \/ \E key \in Keys(delimiter), value \in Values : XSetLeaf(key, value)
    \/ \E key \in Keys(delimiter), value \in Values : OSetLeaf(key, value)

SpecShelf == Init /\ [][NextShelf]_vars

(***************************************************************************)
(* C17: for an sfdict, with or without a filename, x[key] gives a view     *)
(* on the parent's store: a leaf written through the view is at once in    *)
(* the parent's store, and a leaf written through the parent in the        *)
(* view's.                                                                 *)
(***************************************************************************)
C17_ShelfViewSharesStore ==
    /\ last.op = "sfdict" => last.err = "none"
    /\ (last.op = "get" /\ filename # NoFile) => last.err = "none"
    /\ (other.kind = "view" /\ filename # NoFile) => other.x.d = d

(***************************************************************************)
(* C18: fdict(m) and sfdict(m), with and without fastview, give a store    *)
(* whose leaves are exactly the flattened leaves of m; with fastview every *)
(* ancestor of a leaf has its node entry, with exactly its children.       *)
(***************************************************************************)
C18_ConstructedFromMapping ==
    last.op \in {"fdict", "sfdict"} =>
        LET flat == flatkeys(last.m.m, delimiter)
        IN  /\ last.err = "none"
            /\ c = dict_update(EmptyStore, flat)
            /\ LeafKeys(d) = DOMAIN flat
            /\ \A k \in DOMAIN flat : d[k] = Leaf(flat[k]) /\ ChainTo(d, k)
            /\ \A n \in NodeKeys(d) : d[n].node /\ d[n].s = ChildrenOf(d, n) /\ d[n].s # {}

(***************************************************************************)
(* C19: for the fastview and the non-fastview structure and every          *)
(* rootpath, the empty one included, len(view) is the number of items the  *)
(* view's items(fullpath=False) yields, which is the number of leaves      *)
(* stored in its scope; node entries are not counted.                      *)
(***************************************************************************)
\* the rootpaths of the views looked at: the root and every key
Scopes == {Empty} \cup Keys(delimiter)

\* the leaves in the scope of a view, by a scan of the whole store:
\* relative path -> value
LeavesInScope(x) ==
    LET pattern == IF x.rootpath = Empty THEN Empty ELSE x.rootpath \o <<x.delimiter>>
        ks == { k \in DOMAIN x.d : ~endswith(k, x.delimiter) /\ startswith(k, pattern) }
    IN  [r \in { Suffix(k, Len(pattern)) : k \in ks } |-> x.d[pattern \o r].v]

LenIsItemCount(x) ==
    /\ __len__(x).err = "none"
    /\ __len__(x).n = Cardinality(DOMAIN viewitems(x, FALSE, FALSE))
    /\ __len__(x).n = Cardinality(DOMAIN LeavesInScope(x))

C19_LenCountsLeaves ==
    \A R \in Scopes :
        /\ LenIsItemCount(Struct(d, R, delimiter, TRUE))
        /\ LenIsItemCount(Struct(c, R, delimiter, FALSE))

(***************************************************************************)
(* C20: x == y is true exactly when the leaves in the scope of x, as       *)
(* relative path -> value, are the leaves of y: those in the scope of y    *)
(* when y is a structure (top-level or view, fastview or not), the         *)
(* flattened leaves when y is a plain mapping.  Node entries and entries   *)
(* out of scope play no part.                                              *)
(***************************************************************************)
\* the structures compared: the views of the fastview and of the
\* non-fastview structure
Compared == { Struct(st, R, delimiter, fast) : R \in Scopes, <<st, fast>> \in {<<d, TRUE>>, <<c, FALSE>>} }

\* the leaves of the argument of ==
LeavesOfArg(a) ==
    IF a.struct THEN LeavesInScope(a.x) ELSE flatkeys(a.m, delimiter)

EqIsLeafEquality(x, a) ==
    /\ __eq__(x, a).err = "none"
    /\ __eq__(x, a).ret <=> (LeavesInScope(x) = LeavesOfArg(a))

C20_EqualsComparesLeaves ==
    \A x \in Compared :
        /\ \A y \in Compared : EqIsLeafEquality(x, StructArg(y))
        /\ \A m \in Dicts(delimiter) : EqIsLeafEquality(x, PlainArg(m))

(***************************************************************************)
(* to_dict and the round trip through a fresh structure.                   *)
(***************************************************************************)
\* to_dict(): dict(self.items()), the relative path -> value mapping of the
\* leaves the enumeration yields
to_dict(x) ==
    LET vi == viewitems(x, FALSE, FALSE)
    IN  [k \in DOMAIN vi |-> vi[k].v]

\* a flat mapping path -> value as the plain mapping handed to fdict()
FlatArg(flat) == [k \in DOMAIN flat |-> MLeaf(flat[k])]

\* fdict(x.to_dict(), delimiter=x.delimiter, fastview=x.fastview)
Rebuilt(x) == fdict_init(FlatArg(to_dict(x)), x.delimiter, x.fastview)

(***************************************************************************)
(* C21: for every reachable structure x, in either mode, top-level or a    *)
(* scoped view, x equals the fresh structure of the same mode built from   *)
(* x.to_dict().                                                            *)
(***************************************************************************)
C21_RoundTripEquals ==
    \A x \in Compared :
        /\ __eq__(x, StructArg(Rebuilt(x))).err = "none"
        /\ __eq__(x, StructArg(Rebuilt(x))).ret

(***************************************************************************)
(* to_dict_nested.                                                         *)
(***************************************************************************)
RECURSIVE NestedFrom(_, _, _, _)
NestedFrom(path, delim, lastpos, pos) ==
    IF pos = -1 THEN << >>
    ELSE <<SubSeq(path, lastpos + 1, pos)>>
            \o NestedFrom(path, delim, pos + 1, Find(path, delim, pos + 1))

\* the segments of the parents of a leaf, from the root down to its direct
\* parent: 'a', 'b' for 'a/b/c'
_get_all_parent_nodes_nested(path, delim) ==
    NestedFrom(path, delim, 0, Find(path, delim, 0))

\* the loop body of to_dict_nested with the test "if not parent in d2sub"
\* left out: every parent is created anew
RECURSIVE insert_fresh(_, _, _, _)
insert_fresh(m, parents, k, v) ==
    IF Len(parents) = 0
    THEN [j \in (DOMAIN m) \cup {k} |-> IF j = k THEN MLeaf(v) ELSE m[j]]
    ELSE LET parent == Head(parents)
         IN  [j \in (DOMAIN m) \cup {parent} |->
                 IF j = parent
                 THEN MDict(insert_fresh(EmptyMap, Tail(parents), k, v))
                 ELSE m[j]]

\* the loop body of to_dict_nested: walk down the parents, creating those
\* not there, and bind the leaf key in the innermost one
RECURSIVE insert_nested(_, _, _, _)
insert_nested(m, parents, k, v) ==
    IF Len(parents) = 0
    THEN [j \in (DOMAIN m) \cup {k} |-> IF j = k THEN MLeaf(v) ELSE m[j]]
    ELSE LET parent == Head(parents)
             d2sub == IF parent \in DOMAIN m THEN m[parent].m ELSE EmptyMap
         IN  [j \in (DOMAIN m) \cup {parent} |->
                 IF j = parent
                 THEN MDict(insert_nested(d2sub, Tail(parents), k, v))
                 ELSE m[j]]

\* the loop of to_dict_nested over the items ks, the longest keys first
RECURSIVE nest_all(_, _, _, _)
nest_all(d2, items, ks, delim) ==
    IF ks = {} THEN d2
    ELSE LET k == CHOOSE k \in ks : \A j \in ks : Len(j) <= Len(k)
             leafkey == Suffix(k, RFind(k, delim, 0, Len(k)) + 1)
         IN  nest_all(insert_nested(d2, _get_all_parent_nodes_nested(k, delim),
                                    leafkey, items[k]),
                      items, ks \ {k}, delim)

\* to_dict_nested(): the outcomes the call can have.  When no yielded key
\* runs through another one the order of the items plays no part.  When a
\* leaf is yielded at a parent of another leaf the outcome depends on the
\* order of iteration: TypeError when the shorter key comes first (the
\* walk steps into a value that is no dict), the shorter key overwriting
\* the nested dict when it comes last.
to_dict_nested(x) ==
    LET items == to_dict(x)
        clash == \E k \in DOMAIN items, j \in DOMAIN items :
                     startswith(j, k \o <<x.delimiter>>)
    IN  { [m |-> nest_all(EmptyMap, items, DOMAIN items, x.delimiter), err |-> "none"] }
        \cup (IF clash THEN { [m |-> EmptyMap, err |-> "TypeError"] } ELSE {})

\* the nested mappings with the keys 'a' and 'b' down to depth n
RECURSIVE NestedMaps(_)
NestedMaps(n) ==
    IF n = 0 THEN { EmptyMap }
    ELSE LET vals == { MLeaf(v) : v \in Values }
                       \cup { MDict(s) : s \in NestedMaps(n - 1) }
         IN  UNION { [K -> vals] : K \in SUBSET {A, B} }

\* x = fdict(m, delimiter, fastview) in both modes, for a nested mapping m
BuildNested(m) ==
    /\ nops = 0
    /\ nops' = nops + 1
    /\ d' = fdict_init(m, delimiter, TRUE).d
    /\ c' = fdict_init(m, delimiter, FALSE).d
    /\ last' = Op("nested", Empty, Empty, 0, PlainArg(m), Ok(d), NoRet)
    /\ UNCHANGED <<delimiter, filename, other, view, conflict>>

\* one structure is built in a run
NextNested == nops = 0 /\ \E m \in NestedMaps(MaxDepth) : BuildNested(m)

SpecNested == Init /\ [][NextNested]_vars

\* m without its empty inner mappings, those left empty by this included
RECURSIVE Elided(_)
Elided(m) ==
    LET keep == { k \in DOMAIN m : m[k].leaf \/ Elided(m[k].m) # EmptyMap }
    IN  [k \in keep |-> IF m[k].leaf THEN m[k] ELSE MDict(Elided(m[k].m))]

CountBelow(st, n) == Cardinality({ k \in DOMAIN st : k # n /\ startswith(k, n) })

C23_CountersExact ==
    /\ \A k \in LeafKeys(c) : \A n \in Ancestors(k) :
           /\ n \in DOMAIN c
           /\ ~c[n].node
           /\ c[n].v = CountBelow(c, n)
    /\ \A n \in NodeKeys(c) : CountBelow(c, n) > 0

(***************************************************************************)
(* Reads on the fastview structure: get, with the empty key too, between   *)
(* sets of leaves and of structures.                                       *)
(***************************************************************************)
\* x[''] through the root: the empty key is not in self.d, so __getitem__
\* returns fdict(d=self.d, rootpath=''), whose __init__ flattens self.d into
\* a new dict holding the same set objects and runs _build_metadata on it
GetEmpty ==
    LET f == init_from_dict(d, Empty, delimiter, TRUE)
    IN  /\ nops < MaxOps
        /\ nops' = nops + 1
        /\ d' = f.src
        /\ last' = Op("get", Empty, Empty, 0, PlainArg(EmptyMap), Ok(d), RetView(Empty))
        /\ UNCHANGED <<delimiter, filename, other, c, view, conflict>>

NextReads ==
    \/ \E rootpath \in Roots, key \in Keys(delimiter) : GetItem(rootpath, key)
    \/ GetEmpty
    \/ \E key \in Keys(delimiter), value \in Values : TopSetLeaf(key, value)
    \/ \E key \in Keys(delimiter), y \in Structs(delimiter) : SetStruct(Empty, key, y)

SpecReads == Init /\ [][NextReads]_vars

(***************************************************************************)
(* C24: get and the enumeration of keys are total and read-only: a get,    *)
(* for any key and through any view, leaves the store as it was, and the   *)
(* enumeration of any view, with or without nodes, raises nothing.         *)
(***************************************************************************)
C24_ReadsTotalReadOnly ==
    /\ last.op = "get" => d = last.pre
    /\ \A R \in Scopes, nodes \in BOOLEAN :
           viewkeys(d, R, FALSE, nodes, Empty, delimiter, TRUE).err = "none"

(***************************************************************************)
(* The traversal of a view in fastview mode, yield by yield.               *)
(***************************************************************************)
\* the number of leaves the traversal of viewkeys yields from the stack
\* children: one per leaf popped; the children of a node popped are pushed
RECURSIVE WalkCount(_, _, _)
WalkCount(st, children, delim) ==
    IF children = {} THEN 0
    ELSE LET child == CHOOSE x \in children : TRUE
         IN  IF endswith(child, delim)
             THEN IF child \in DOMAIN st
                  THEN WalkCount(st, (children \ {child}) \cup st[child].s, delim)
                  ELSE 0
             ELSE 1 + WalkCount(st, children \ {child}, delim)

\* the leaves stored under the rootpath R, by a scan of the whole store
ScanUnder(R) ==
    { k \in DOMAIN d : ~endswith(k, delimiter) /\ startswith(k, R \o <<delimiter>>) }

(***************************************************************************)
(* C25: in fastview mode the enumeration of a view with a non-empty        *)
(* rootpath R ends without error and yields every leaf stored under        *)
(* R + delimiter exactly once, relative to R or as a full path, node keys  *)
(* only when asked for, and nothing from outside: its leaves are those of  *)
(* a scan of all stored leaves for the prefix.                             *)
(***************************************************************************)
C25_WalkEqualsScan ==
    \A R \in Keys(delimiter), fullpath \in BOOLEAN, nodes \in BOOLEAN :
        LET vk == viewkeys(d, R, fullpath, nodes, Empty, delimiter, TRUE)
            lpattern == IF fullpath THEN 0 ELSE Len(R) + 1
            pattern == R \o <<delimiter>>
        IN  /\ vk.err = "none"
            /\ { k \in vk.keys : ~endswith(k, delimiter) }
                   = { Suffix(k, lpattern) : k \in ScanUnder(R) }
            /\ ~nodes => \A k \in vk.keys : ~endswith(k, delimiter)
            /\ pattern \in DOMAIN d =>
                   WalkCount(d, d[pattern].s, delimiter) = Cardinality(ScanUnder(R))

(***************************************************************************)
(* __setitem__ through the root of the fastview structure, statement by    *)
(* statement.  last.op is the position in the call: the store changes      *)
(* between the positions as it does between the statements of the code.    *)
(***************************************************************************)
\* no call is under way
Idle == last.op \in {"init", "setleaf", "setdict"}

\* the position after a statement that may raise: on an exception the call
\* is over
After(r, pos, done) == [last EXCEPT !.op = IF r.err = "none" THEN pos ELSE done,
                                    !.err = r.err]

\* x[key] = value is called with a value that is not a dict
LeafBegin(key, value) ==
    /\ Idle
    /\ nops < MaxOps
    /\ nops' = nops + 1
    /\ last' = [op |-> "leaf.begin", rootpath |-> Empty, key |-> key, value |-> value,
                m |-> PlainArg(EmptyMap), pre |-> d, err |-> "none", ret |-> NoRet]
    /\ UNCHANGED <<delimiter, filename, other, d, c, view, conflict>>

\* if dirkey in self.d: self.__delitem__(key)
LeafDeleteNode ==
    LET dirkey == last.key \o <<delimiter>>
        r == IF dirkey \in DOMAIN d
             THEN __delitem__(d, Empty, last.key, delimiter, TRUE)
             ELSE Ok(d)
    IN  /\ last.op = "leaf.begin"
        /\ d' = r.d
        /\ last' = After(r, "leaf.nodedeleted", "setleaf")
        /\ UNCHANGED <<delimiter, filename, other, c, view, conflict, nops>>

\* for parent in self._get_all_parent_nodes(fullkey): delete parentleaf if stored
LeafDeleteParents ==
    LET r == delete_parent_singletons(d, Empty,
                 _get_all_parent_nodes(last.key, DefaultDelimiter), 1, delimiter, TRUE)
    IN  /\ last.op = "leaf.nodedeleted"
        /\ d' = r.d
        /\ last' = After(r, "leaf.parentsdeleted", "setleaf")
        /\ UNCHANGED <<delimiter, filename, other, c, view, conflict, nops>>

\* self._build_metadata([fullkey])
LeafBuildMetadata ==
    /\ last.op = "leaf.parentsdeleted"
    /\ d' = _build_metadata(d, {last.key}, delimiter)
    /\ last' = [last EXCEPT !.op = "leaf.indexed"]
    /\ UNCHANGED <<delimiter, filename, other, c, view, conflict, nops>>

\* self.d.__setitem__(fullkey, value)
LeafStore ==
    /\ last.op = "leaf.indexed"
    /\ d' = Put(d, last.key, Leaf(last.value))
    /\ last' = [last EXCEPT !.op = "setleaf"]
    /\ UNCHANGED <<delimiter, filename, other, c, view, conflict, nops>>

\* x[key] = m is called with a plain dict m
DictBegin(key, m) ==
    /\ Idle
    /\ nops < MaxOps
    /\ nops' = nops + 1
    /\ last' = [op |-> "dict.begin", rootpath |-> Empty, key |-> key, value |-> 0,
                m |-> PlainArg(m), pre |-> d, err |-> "none", ret |-> NoRet]
    /\ UNCHANGED <<delimiter, filename, other, d, c, view, conflict>>

\* if fullkey in self.d: self.__delitem__(key); then return if the dict is empty
DictDeleteLeaf ==
    LET r == IF last.key \in DOMAIN d
             THEN __delitem__(d, Empty, last.key, delimiter, TRUE)
             ELSE Ok(d)
    IN  /\ last.op = "dict.begin"
        /\ d' = r.d
        /\ last' = After(r, IF last.m.m = EmptyMap THEN "setdict" ELSE "dict.leafdeleted",
                         "setdict")
        /\ UNCHANGED <<delimiter, filename, other, c, view, conflict, nops>>

\* the flattened dict of a set under way
PendingD2 ==
    flatkeys(Map1(_build_path(Empty, Empty, last.key, delimiter), MDict(last.m.m)), delimiter)

\* self.d.update(d2)
DictMerge ==
    /\ last.op = "dict.leafdeleted"
    /\ d' = dict_update(d, PendingD2)
    /\ last' = [last EXCEPT !.op = "dict.merged"]
    /\ UNCHANGED <<delimiter, filename, other, c, view, conflict, nops>>

\* self._build_metadata(self._generickeys(d2))
DictBuildMetadata ==
    /\ last.op = "dict.merged"
    /\ d' = _build_metadata(d, DOMAIN PendingD2, delimiter)
    /\ last' = [last EXCEPT !.op = "setdict"]
    /\ UNCHANGED <<delimiter, filename, other, c, view, conflict, nops>>

NextSteps ==
    \/ \E key \in Keys(delimiter), value \in Values : LeafBegin(key, value)
    \/ LeafDeleteNode
    \/ LeafDeleteParents
    \/ LeafBuildMetadata
    \/ LeafStore
    \/ \E key \in Keys(delimiter), m \in Dicts(delimiter) : DictBegin(key, m)
    \/ DictDeleteLeaf
    \/ DictMerge
    \/ DictBuildMetadata

SpecSteps == Init /\ [][NextSteps]_vars

\* the statements of a call, taken one by one, end in the store the call
\* taken as a whole ends in
StepsMakeTheCall ==
    /\ last.op = "setleaf" =>
           d = setitem_leaf(last.pre, Empty, last.key, last.value, delimiter, TRUE).d
    /\ last.op = "setdict" =>
           d = setitem_dict(last.pre, Empty, last.key, last.m.m, delimiter, TRUE).d

\* the entries stored below the key of the call
BelowKey == { k \in DOMAIN d : startswith(k, last.key \o <<delimiter>>) }

(***************************************************************************)
(* C26: in a set that turns a path from a leaf into a node or back, the    *)
(* old form is out of the store before the new one goes in: from the       *)
(* statement that builds the index for a new leaf on, the node and the     *)
(* subtree that were stored at its key and the leaves that were stored at  *)
(* its ancestors are gone; from the statement that merges a mapping on,    *)
(* the leaf that was stored at its key is gone.                            *)
(***************************************************************************)
C26_OldFormRemovedFirst ==
    /\ (last.op \in {"leaf.parentsdeleted", "leaf.indexed"}
          \/ (last.op = "setleaf" /\ last.err = "none")) =>
           /\ BelowKey = {}
           /\ LeafAncestors(last.pre, last.key) \cap DOMAIN d = {}
    /\ last.op \in {"dict.leafdeleted", "dict.merged"} =>
           (last.key \in DOMAIN d => ~(last.key \in DOMAIN last.pre))

(***************************************************************************)
(* extract.                                                                *)
(***************************************************************************)
\* extract(fullpath): a new structure built from the leaf items of x.  With
\* fullpath the items keep their full keys and the constructor is given the
\* rootpath of x: for a view it then takes dict(items) as its dict, as it
\* is; in the other cases the items are flattened into a top-level
\* structure and, in fastview mode, indexed.
extract(x, fullpath) ==
    LET vi == viewitems(x, fullpath, FALSE)
        flat == [k \in DOMAIN vi |-> vi[k].v]
    IN  IF fullpath /\ x.rootpath # Empty
        THEN Struct(dict_update(EmptyStore, flat), x.rootpath, x.delimiter, x.fastview)
        ELSE fdict_init(FlatArg(flat), x.delimiter, x.fastview)

(***************************************************************************)
(* C27: extract() on a view, in either mode, gives a structure that        *)
(* enumerates the leaf items the view enumerates and stores no leaf from   *)
(* outside the view: with fullpath=True under the rootpath of the view,    *)
(* with full keys; with fullpath=False at the root, with relative keys.    *)
(***************************************************************************)
C27_ExtractSameItems ==
    \A x \in Compared, fullpath \in BOOLEAN :
        LET e == extract(x, fullpath)
        IN  /\ e.rootpath = (IF fullpath THEN x.rootpath ELSE Empty)
            /\ viewitems(e, fullpath, FALSE) = viewitems(x, fullpath, FALSE)
            /\ { k \in DOMAIN e.d : ~endswith(k, e.delimiter) }
                   = DOMAIN viewitems(x, fullpath, FALSE)

(***************************************************************************)
(* C28: the fastview structure behaves alike under every delimiter.  An    *)
(* operation through the root with the configured delimiter D ends with    *)
(* the error, and in the store, that the same operation ends with under    *)
(* the default delimiter, '/' replaced by D in every path; contains too    *)
(* answers alike.  So a run with D is, step by step, the image of the run  *)
(* with '/', the set of a leaf under an ancestor stored as a leaf          *)
(* included.                                                               *)
(***************************************************************************)
\* a path with the configured delimiter, written with the default one
ToDefault(p) ==
    [i \in 1 .. Len(p) |-> IF p[i] = delimiter THEN DefaultDelimiter ELSE p[i]]

\* a path with the default delimiter, written with the configured one
FromDefault(p) ==
    [i \in 1 .. Len(p) |-> IF p[i] = DefaultDelimiter THEN delimiter ELSE p[i]]

StoreToDefault(st) ==
    [k \in { ToDefault(j) : j \in DOMAIN st } |->
        LET e == st[CHOOSE j \in DOMAIN st : ToDefault(j) = k]
        IN  [e EXCEPT !.s = { ToDefault(ch) : ch \in e.s }]]

StoreFromDefault(st) ==
    [k \in { FromDefault(j) : j \in DOMAIN st } |->
        LET e == st[CHOOSE j \in DOMAIN st : FromDefault(j) = k]
        IN  [e EXCEPT !.s = { FromDefault(ch) : ch \in e.s }]]

RECURSIVE MapToDefault(_)
MapToDefault(m) ==
    [k \in { ToDefault(j) : j \in DOMAIN m } |->
        LET x == m[CHOOSE j \in DOMAIN m : ToDefault(j) = k]
        IN  IF x.leaf THEN x ELSE MDict(MapToDefault(x.m))]

\* the last operation, run with the default delimiter from the image of
\* the store it began in
WithDefault ==
    LET pre == StoreToDefault(last.pre)
        key == ToDefault(last.key)
    IN  IF last.op = "setleaf"
        THEN setitem_leaf(pre, Empty, key, last.value, DefaultDelimiter, TRUE)
        ELSE IF last.op = "setdict"
        THEN setitem_dict(pre, Empty, key, MapToDefault(last.m.m), DefaultDelimiter, TRUE)
        ELSE __delitem__(pre, Empty, key, DefaultDelimiter, TRUE)

C28_DelimiterIndependent ==
    /\ last.op \in {"setleaf", "setdict", "del"} =>
           /\ last.err = WithDefault.err
           /\ d = StoreFromDefault(WithDefault.d)
    /\ \A key \in Keys(delimiter) :
           __contains__(d, Empty, key, delimiter, TRUE)
               = __contains__(StoreToDefault(d), Empty, ToDefault(key), DefaultDelimiter, TRUE)

====
